---- MODULE Spec2Model ----
(***************************************************************************)
(* Model of app.py: a Streamlit voice chatbot.  One session: the script is *)
(* re-run top to bottom on every user interaction; the "Start Talking"     *)
(* button runs one listen / transcribe / generate / synthesize / play      *)
(* cycle whose stages block on external collaborators.                     *)
(***************************************************************************)
EXTENDS Integers, Sequences, FiniteSets, TLC

\* Config.MAX_HISTORY_LENGTH (app.py line 21 sets 50), scaled down so that
\* the trim of limit_history happens within the explored cycles.
MAX_HISTORY_LENGTH == 4

\* Config.DEFAULT_VOICE
DEFAULT_VOICE == "en-US-JennyNeural"

\* Turns appended since the last clear that the exploration allows.
MaxTurns == 8

\* Iterations of the get_busy() polling loop one playback may take.
MaxTicks == 2

\* What edge_tts.list_voices() may return on one script run; get_available_voices
\* turns an exception of the collaborator into the empty list.
VoiceLists ==
    { << >>,
      << [ShortName |-> "en-US-GuyNeural", Locale |-> "en-US"],
         [ShortName |-> "en-US-JennyNeural", Locale |-> "en-US"] >>,
      << [ShortName |-> "en-GB-RyanNeural", Locale |-> "en-GB"] >> }

\* Names of the files of Config.TEMP_DIR.  The uuid of a cycle's files is
\* abstracted: a file of an earlier cycle that is still there is "stale".
WAV == "audio.wav"
TTS == "tts.mp3"
TEST_AUDIO == "test_audio.mp3"
STALE == "stale"

VARIABLES
    pc,                \* stage of the Turn Controller
    chat_history,      \* st.session_state.chat_history
    selected_voice,    \* st.session_state.selected_voice
    available_voices,  \* st.session_state.available_voices
    select_voice,      \* widget state of the "Select Voice" selectbox
    voice_warning,     \* the sidebar shows "No voices available"
    rendered,          \* the chat history as drawn by the last script run
    temp_dir,          \* files present in Config.TEMP_DIR
    busy,              \* remaining polls for which get_busy() is true
    reported,          \* st.warning / st.error messages of the current cycle
    log,               \* history: every Turn appended since the last clear
    pre,               \* history: chat_history when the current cycle started
    ended,             \* history: how the last cycle left the handler
    synth,             \* history: outcome of generate_speech in the cycle
    unlink_failed      \* history: files the last sweep could not delete

vars == << pc, chat_history, selected_voice, available_voices, select_voice,
           voice_warning, rendered, temp_dir, busy, reported, log, pre, ended,
           synth, unlink_failed >>

----------------------------------------------------------------------------
\* Sequence helpers

Last(s) == s[Len(s)]

\* list.index(x): position of the first occurrence (1-based here)
IndexOf(s, x) == CHOOSE i \in 1..Len(s) : s[i] = x /\ \A j \in 1..(i - 1) : s[j] # x

Contains(s, x) == \E i \in 1..Len(s) : s[i] = x

----------------------------------------------------------------------------
\* History buffer

Turn(role, content) == [role |-> role, content |-> content]

\* chat_history.append({"role": ..., "content": ...})
appended_drop(h, role, content) == h
append(h, role, content) == Append(h, Turn(role, content))

\* limit_history(): chat_history[-MAX_HISTORY_LENGTH:] when over the cap
limit_history_none(h) == h
limit_history_head(h) ==
    IF Len(h) > MAX_HISTORY_LENGTH THEN SubSeq(h, 1, MAX_HISTORY_LENGTH) ELSE h
limit_history(h) ==
    IF Len(h) > MAX_HISTORY_LENGTH
    THEN SubSeq(h, Len(h) - MAX_HISTORY_LENGTH + 1, Len(h))
    ELSE h

\* chat_history after the recognize_google call of the inner try block
transcribed_always(h, result, content) == append(h, "user", content)
transcribed(h, result, content) ==
    IF result = "ok" THEN append(h, "user", content) ELSE h

----------------------------------------------------------------------------
\* Temp files

\* cleanup_old_files(): unlink every file of TEMP_DIR; an unlink that raises
\* is reported and the file stays.  failing: the files whose unlink raises.
cleanup_skipped(dir, failing) == dir
cleanup_old_files(dir, failing) == dir \cap failing

\* os.remove(path): ok tells whether the call succeeds
remove(dir, file, ok) == IF ok THEN dir \ {file} ELSE dir

\* A new cycle draws fresh uuids: what is left of an earlier cycle is stale.
Aged(dir) == { IF f \in {WAV, TTS} THEN STALE ELSE f : f \in dir }

----------------------------------------------------------------------------
\* Script top: voices and sidebar

\* initialize_voices(): the list comprehension over the collaborator's list
initialize_voices(voices) ==
    [ i \in 1..Len(voices) |->
        [ name |-> voices[i].ShortName,
          display |-> << voices[i].Locale, voices[i].ShortName >> ] ]

voice_options(av) == [ i \in 1..Len(av) |-> av[i].display ]
voice_names(av) == [ i \in 1..Len(av) |-> av[i].name ]

\* voice_names.index(DEFAULT_VOICE), 0 (the first entry) on ValueError
default_idx(names) ==
    IF Contains(names, DEFAULT_VOICE) THEN IndexOf(names, DEFAULT_VOICE) ELSE 1

NoWidget == [options |-> << >>, value |-> << >>]

\* st.selectbox(options, index): the value the user last picked while the
\* widget exists with these options, else options[index]
selectbox(options, index, widget) ==
    IF widget.options = options /\ Contains(options, widget.value)
    THEN widget.value
    ELSE options[index]

\* The sidebar block: the voice the run leaves selected
sidebar_voice(av, widget, current) ==
    IF av # << >>
    THEN voice_names(av)[IndexOf(voice_options(av),
             selectbox(voice_options(av), default_idx(voice_names(av)), widget))]
    ELSE current

sidebar_widget(av, widget) ==
    IF av # << >>
    THEN [ options |-> voice_options(av),
           value |-> selectbox(voice_options(av), default_idx(voice_names(av)), widget) ]
    ELSE NoWidget

\* One run of the script from the top down to the control buttons: load the
\* voices, draw the sidebar (current: the voice selected before the run),
\* draw the chat history h.
RunScript(voices, widget, current, h) ==
    LET av == initialize_voices(voices) IN
    /\ available_voices' = av
    /\ selected_voice' = sidebar_voice(av, widget, current)
    /\ select_voice' = sidebar_widget(av, widget)
    /\ voice_warning' = (av = << >>)
    /\ rendered' = h

\* test_audio_system(): the test file stays when generate_speech fails after
\* creating it, or when its os.remove raises.
TestAudioLeftovers == { {}, {TEST_AUDIO} }

\* The session after the first script run: session_state defaults, voices
\* loaded, audio system tested once, empty history drawn.
Init ==
    /\ pc = "Idle"
    /\ chat_history = << >>
    /\ \E voices \in VoiceLists :
         LET av == initialize_voices(voices) IN
         /\ available_voices = av
         /\ selected_voice = sidebar_voice(av, NoWidget, DEFAULT_VOICE)
         /\ select_voice = sidebar_widget(av, NoWidget)
         /\ voice_warning = (av = << >>)
    /\ rendered = << >>
    /\ temp_dir \in TestAudioLeftovers
    /\ busy = 0
    /\ reported = {}
    /\ log = << >>
    /\ pre = << >>
    /\ ended = "none"
    /\ synth = "none"
    /\ unlink_failed = {}

----------------------------------------------------------------------------
\* The cycle: transcribe_and_generate_response()

\* Messages of the handlers
MsgTimeout == "No speech detected. Please try again."
MsgNoAudio == "No audio was recorded. Please try again."
MsgRequest == "Could not request results"
MsgUnknown == "Could not understand audio. Please try again."
MsgError == "An error occurred"
MsgVoiceFailed == "Voice failed to generate speech"
MsgSpeechGen == "Error generating speech"
MsgNoFile == "Speech file was not generated"
MsgPygame == "Pygame error"
MsgSpeech == "Speech error"
MsgDelete == "Error deleting"

\* The outer finally: cleanup_old_files()
Sweep_missing(dir, msgs) ==
    /\ temp_dir' = dir
    /\ unlink_failed' = {}
    /\ reported' = reported \cup msgs
Sweep(dir, msgs) ==
    \E failing \in SUBSET dir :
        /\ temp_dir' = cleanup_old_files(dir, failing)
        /\ unlink_failed' = failing
        /\ reported' = reported \cup msgs \cup (IF failing = {} THEN {} ELSE {MsgDelete})

\* The handler is left through a return or an except block: the finally
\* sweeps TEMP_DIR and the script run ends without drawing anything again.
Leave(how, dir, msgs) ==
    /\ Sweep(dir, msgs)
    /\ ended' = how
    /\ pc' = "Idle"
    /\ busy' = 0
    /\ UNCHANGED << selected_voice, available_voices, select_voice,
                    voice_warning, rendered, pre >>

\* speak() has returned and st.rerun() is raised: the finally sweeps
\* TEMP_DIR, then the script is run again from the top.
Rerun(how, dir, msgs) ==
    /\ Sweep(dir, msgs)
    /\ ended' = how
    /\ pc' = "Rerun"
    /\ busy' = 0
    /\ UNCHANGED << selected_voice, available_voices, select_voice,
                    voice_warning, rendered, pre >>

\* The script run that st.rerun() asked for: no button is pressed in it.
ScriptRerun ==
    /\ pc = "Rerun"
    /\ \E voices \in VoiceLists :
         RunScript(voices, select_voice, selected_voice, chat_history)
    /\ pc' = "Idle"
    /\ UNCHANGED << chat_history, temp_dir, busy, reported, log, pre, ended,
                    synth, unlink_failed >>

\* "Start Talking" is clicked: the script runs from the top, then the button
\* calls the handler, which opens the microphone.
StartTalking ==
    /\ pc = "Idle"
    /\ Len(log) + 2 <= MaxTurns
    /\ \E voices \in VoiceLists :
         RunScript(voices, select_voice, selected_voice, chat_history)
    /\ pc' = "Listening"
    /\ pre' = chat_history
    /\ temp_dir' = Aged(temp_dir)
    /\ reported' = {}
    /\ ended' = "none"
    /\ synth' = "none"
    /\ unlink_failed' = {}
    /\ UNCHANGED << chat_history, busy, log >>

\* recognizer.listen, audio.get_wav_data and the write of the .wav file
Listen ==
    /\ pc = "Listening"
    /\ \/ Leave("WaitTimeoutError", temp_dir, {MsgTimeout})
          /\ UNCHANGED << chat_history, log, synth >>
       \/ \* sr.Microphone() or listen raises something else
          Leave("listen_error", temp_dir, {MsgError})
          /\ UNCHANGED << chat_history, log, synth >>
       \/ Leave("empty", temp_dir, {MsgNoAudio})
          /\ UNCHANGED << chat_history, log, synth >>
       \/ \E partial \in BOOLEAN, rm \in BOOLEAN :
             \* open or write raises; the inner finally removes what exists
             /\ Leave("write_error",
                      IF partial THEN remove(temp_dir \cup {WAV}, WAV, rm) ELSE temp_dir,
                      {MsgError})
             /\ UNCHANGED << chat_history, log, synth >>
       \/ /\ temp_dir' = temp_dir \cup {WAV}
          /\ pc' = "Transcribing"
          /\ UNCHANGED << chat_history, selected_voice, available_voices,
                          select_voice, voice_warning, rendered, busy, reported,
                          log, pre, ended, synth, unlink_failed >>

\* recognizer.recognize_google, the user Turn, the inner finally
Transcribe ==
    /\ pc = "Transcribing"
    /\ \E result \in {"ok", "UnknownValueError", "RequestError"}, rm \in BOOLEAN :
         LET h == transcribed(chat_history, result, Len(log) + 1)
             dir == remove(temp_dir, WAV, rm)
         IN  /\ chat_history' = h
             /\ log' = IF result = "ok" THEN Append(log, Turn("user", Len(log) + 1)) ELSE log
             /\ IF result = "ok" /\ rm
                THEN /\ pc' = "Generating"
                     /\ temp_dir' = dir
                     /\ UNCHANGED << selected_voice, available_voices, select_voice,
                                     voice_warning, rendered, busy, reported, pre,
                                     ended, unlink_failed >>
                ELSE Leave(IF result = "ok" THEN "wav_remove_error" ELSE result,
                           dir,
                           IF ~rm THEN {MsgError}
                           ELSE IF result = "RequestError" THEN {MsgRequest}
                           ELSE {MsgUnknown})
             /\ UNCHANGED synth

\* client.chat.completions.create, the assistant Turn, limit_history()
Generate ==
    /\ pc = "Generating"
    /\ \/ /\ chat_history' = limit_history(append(chat_history, "assistant", Len(log) + 1))
          /\ log' = Append(log, Turn("assistant", Len(log) + 1))
          /\ pc' = "Synthesizing"
          /\ UNCHANGED << selected_voice, available_voices, select_voice,
                          voice_warning, rendered, temp_dir, busy, reported, pre,
                          ended, synth, unlink_failed >>
       \/ /\ Leave("GenerationFailed", temp_dir, {MsgError})
          /\ UNCHANGED << chat_history, log, synth >>

\* speak(): generate_speech, the existence check, music.load and music.play
Synthesize ==
    /\ pc = "Synthesizing"
    /\ \E result \in {"saved", "NoAudioReceived", "error"}, exists \in BOOLEAN :
         /\ (result = "saved") => exists
         /\ synth' = result
         /\ LET msgs == IF result = "NoAudioReceived" THEN {MsgVoiceFailed}
                        ELSE IF result = "error" THEN {MsgSpeechGen} ELSE {}
                dir == IF exists THEN temp_dir \cup {TTS} ELSE temp_dir
            IN  \/ /\ ~exists
                   /\ Rerun("no_speech_file", dir, msgs \cup {MsgNoFile})
                \/ /\ exists
                   /\ \E rm \in BOOLEAN :
                        \* pygame.error on load or play: caught, then unload and remove
                        Rerun(IF rm THEN "pygame_error" ELSE "speech_error",
                              remove(dir, TTS, rm),
                              msgs \cup {MsgPygame} \cup (IF rm THEN {} ELSE {MsgSpeech}))
                \/ /\ exists
                   /\ temp_dir' = dir
                   /\ reported' = reported \cup msgs
                   /\ pc' = "Playing"
                   /\ busy' \in 0..MaxTicks
                   /\ UNCHANGED << selected_voice, available_voices, select_voice,
                                   voice_warning, rendered, pre, ended, unlink_failed >>
    /\ UNCHANGED << chat_history, log >>

\* one pass of: while pygame.mixer.music.get_busy(): Clock().tick(10)
ticked_stuck(b) == b
ticked(b) == b - 1

PlayTick ==
    /\ pc = "Playing"
    /\ busy > 0
    /\ busy' = ticked(busy)
    /\ UNCHANGED << pc, chat_history, selected_voice, available_voices,
                    select_voice, voice_warning, rendered, temp_dir, reported,
                    log, pre, ended, synth, unlink_failed >>

\* playback has finished: unload, os.remove, return, st.rerun()
PlayDone ==
    /\ pc = "Playing"
    /\ busy = 0
    /\ \E rm \in BOOLEAN :
         Rerun(IF rm THEN "played" ELSE "speech_error",
               remove(temp_dir, TTS, rm),
               IF rm THEN {} ELSE {MsgSpeech})
    /\ UNCHANGED << chat_history, log, synth >>

----------------------------------------------------------------------------
\* The other user actions, each a script run

\* "Clear Chat History": script run, empty the history, sweep, st.rerun()
ClearChatHistory ==
    /\ pc = "Idle"
    /\ \E voices \in VoiceLists :
         RunScript(voices, select_voice, selected_voice, chat_history)
    /\ chat_history' = << >>
    /\ log' = << >>
    /\ \E failing \in SUBSET temp_dir :
         /\ temp_dir' = cleanup_old_files(temp_dir, failing)
         /\ unlink_failed' = failing
         /\ reported' = IF failing = {} THEN {} ELSE {MsgDelete}
    /\ pc' = "Rerun"
    /\ pre' = << >>
    /\ ended' = "none"
    /\ synth' = "none"
    /\ UNCHANGED busy

\* The user picks an entry of the selectbox: the script runs with it
SelectVoice ==
    /\ pc = "Idle"
    /\ available_voices # << >>
    /\ \E i \in 1..Len(available_voices), voices \in VoiceLists :
         RunScript(voices,
                   [select_voice EXCEPT !.value = voice_options(available_voices)[i]],
                   selected_voice, chat_history)
    /\ reported' = {}
    /\ ended' = "none"
    /\ synth' = "none"
    /\ UNCHANGED << pc, chat_history, temp_dir, busy, log, pre, unlink_failed >>

\* "Download Chat History": script run; download_chat_history() only reads
DownloadChatHistory ==
    /\ pc = "Idle"
    /\ \E voices \in VoiceLists :
         RunScript(voices, select_voice, selected_voice, chat_history)
    /\ reported' = {}
    /\ ended' = "none"
    /\ synth' = "none"
    /\ UNCHANGED << pc, chat_history, temp_dir, busy, log, pre, unlink_failed >>

CycleStep ==
    Listen \/ Transcribe \/ Generate \/ Synthesize \/ PlayTick \/ PlayDone \/ ScriptRerun

Next ==
    \/ StartTalking
    \/ Listen
    \/ Transcribe
    \/ Generate
    \/ Synthesize
    \/ PlayTick
    \/ PlayDone
    \/ ScriptRerun
    \/ ClearChatHistory
    \/ SelectVoice
    \/ DownloadChatHistory

Spec == Init /\ [][Next]_vars

\* Each collaborator call returns, playback goes on and a requested script
\* run happens: a cycle keeps stepping.
LiveSpec == Spec /\ WF_vars(CycleStep)

----------------------------------------------------------------------------
\* Helpers of the properties

Min(a, b) == IF a <= b THEN a ELSE b

\* h is the end of l, entry for entry
IsSuffix(h, l) ==
    /\ Len(h) <= Len(l)
    /\ \A i \in 1..Len(h) : h[i] = l[Len(l) - Len(h) + i]

\* the newest n entries of l, oldest first
Newest(l, n) == [ i \in 1..n |-> l[Len(l) - n + i] ]

NoTranscriptEndings ==
    { "WaitTimeoutError", "listen_error", "empty", "write_error",
      "UnknownValueError", "RequestError" }

----------------------------------------------------------------------------
\* C1: in every reachable state the length of the history is at most
\* MAX_HISTORY_LENGTH.
C1_HistoryWithinCap == Len(chat_history) <= MAX_HISTORY_LENGTH

\* C2: the history is always the end, in order, of the Turns appended since
\* the last clear; after a cycle that completed successfully it is exactly
\* the newest min(n, MAX_HISTORY_LENGTH) of those n Turns.
C2_NewestSuffix ==
    /\ IsSuffix(chat_history, log)
    /\ (pc = "Idle" /\ ended = "played")
         => chat_history = Newest(log, Min(Len(log), MAX_HISTORY_LENGTH))

C2_Witness ==
    /\ pc = "Idle"
    /\ ended = "played"
    /\ Len(log) > MAX_HISTORY_LENGTH
    /\ Len(chat_history) = MAX_HISTORY_LENGTH
    /\ chat_history[1] = log[Len(log) - MAX_HISTORY_LENGTH + 1]

\* C3: a cycle whose model call failed is back at Idle with the error
\* reported and the history equal to the history before the cycle plus the
\* cycle's user Turn as last entry; no assistant Turn was appended.
C3_GenerationFailureKeepsUserTurn ==
    (pc = "Idle" /\ ended = "GenerationFailed") =>
        /\ MsgError \in reported
        /\ Len(chat_history) = Len(pre) + 1
        /\ SubSeq(chat_history, 1, Len(pre)) = pre
        /\ Last(chat_history).role = "user"
        /\ Last(chat_history) = Last(log)

C3_Witness ==
    /\ pc = "Idle"
    /\ ended = "GenerationFailed"
    /\ pre # << >>
    /\ Len(chat_history) = Len(pre) + 1

\* C4: a cycle that ended before a transcript was obtained (listen timeout,
\* empty capture, unintelligible audio, transcription service error, failed
\* write of the capture) is back at Idle with the history it started with.
C4_NoTranscriptNoChange ==
    (pc = "Idle" /\ ended \in NoTranscriptEndings) =>
        /\ chat_history = pre
        /\ reported # {}
        /\ (ended = "WaitTimeoutError" => MsgTimeout \in reported)

C4_Witness ==
    /\ pc = "Idle"
    /\ ended = "RequestError"
    /\ pre # << >>
    /\ chat_history = pre

C6_CleanupOnEveryExit ==
    (pc = "Idle" /\ ended # "none" /\ unlink_failed = {}) =>
        temp_dir \cap {WAV, TTS} = {}

\* os.remove of the speech file raised inside speak, the sweep deleted it
C6_Witness ==
    /\ pc = "Idle"
    /\ ended = "speech_error"
    /\ MsgSpeech \in reported
    /\ unlink_failed = {}
    /\ temp_dir = {}

\* C7: a cycle that has left Idle returns to Idle, whatever the
\* collaborators answer.
C7_CycleReturnsToIdle == (pc # "Idle") ~> (pc = "Idle")

C7_Witness ==
    /\ pc = "Idle"
    /\ ended = "pygame_error"
    /\ Len(log) + 2 <= MaxTurns

\* C8: whenever the controller waits at Idle, the drawn transcript equals
\* the history.
C8_RenderedMatchesHistory == (pc = "Idle") => rendered = chat_history

\* C9: whenever the loaded voice catalog is empty, the selected voice is
\* DEFAULT_VOICE and the sidebar says that no voices are available.
C9_EmptyCatalogDefaultVoice ==
    (available_voices = << >>) =>
        /\ selected_voice = DEFAULT_VOICE
        /\ voice_warning

\* C10: the history changes only by the append of a user Turn at the
\* transcription, by the append of an assistant Turn after that user Turn
\* followed by a trim from the front, or by a clear at Idle; synthesis and
\* playback start with the history trimmed and ending in the assistant
\* Turn; an assistant Turn that is not the first entry follows a user Turn.
C10_HistoryShape ==
    /\ \A i \in 2..Len(chat_history) :
         chat_history[i].role = "assistant" => chat_history[i - 1].role = "user"
    /\ (pc \in {"Synthesizing", "Playing"}) =>
         /\ Len(chat_history) <= MAX_HISTORY_LENGTH
         /\ Last(chat_history).role = "assistant"
         /\ Last(chat_history) = Last(log)

C10_HistoryStep ==
    (chat_history' # chat_history) =>
        \/ /\ pc = "Transcribing"
           /\ Len(chat_history') = Len(chat_history) + 1
           /\ SubSeq(chat_history', 1, Len(chat_history)) = chat_history
           /\ Last(chat_history').role = "user"
        \/ /\ pc = "Generating"
           /\ pc' = "Synthesizing"
           /\ Last(chat_history).role = "user"
           /\ Last(chat_history').role = "assistant"
           /\ Len(chat_history') >= 2
           /\ IsSuffix(SubSeq(chat_history', 1, Len(chat_history') - 1), chat_history)
        \/ /\ pc = "Idle"
           /\ pc' = "Rerun"
           /\ chat_history' = << >>

C10_AppendUserThenAssistantThenTrim ==
    [] C10_HistoryShape /\ [][C10_HistoryStep]_vars

C10_Witness ==
    /\ pc = "Synthesizing"
    /\ Len(log) > MAX_HISTORY_LENGTH
    /\ Len(chat_history) = MAX_HISTORY_LENGTH
    /\ chat_history[1].role = "assistant"

====
